---- MODULE Spec2Model ----
(***************************************************************************)
(* Model of src/src/index.js: the AsyncLock mutex and the                  *)
(* WebLLMEngineWrapper session (#initEngine, loadModel, the three          *)
(* generation entry points and #generateWithRetry).                        *)
(*                                                                         *)
(* JavaScript runs each piece of code between two awaits to completion, so *)
(* one action of the model is one such piece.  A call of the public API is *)
(* numbered in the order of its invocation (1, 2, ...).  The inference     *)
(* backend (CreateMLCEngine, engine.reload, engine.chatCompletion) is      *)
(* opaque: each of its calls ends by returning or by throwing.             *)
(***************************************************************************)
EXTENDS Integers, Sequences, FiniteSets

\* ---------------------------------------------------------------- bounds
\* Number of API calls made on the session.
MaxCalls == 3
\* Largest maxRetries argument explored for #generateWithRetry.
MaxRetriesBound == 2
\* Number of API calls made where maxRetries varies.
RetryCalls == 2
\* Largest number of chunks of one streamed completion.
MaxChunks == 1
\* Largest value of a completion parameter.
MaxParamValue == 2
\* Largest number of chunks of the streamed completion whose text is followed.
MaxDeltas == 3
\* Largest length of a completion text given to JSON.parse.
MaxTextLen == 5

\* ------------------------------------------------------------- constants
\* Default value of the maxRetries parameter (all call sites omit it).
DefaultMaxRetries == 1

Calls == 1..MaxCalls
\* Model ids of the catalog; NoModel is JavaScript's null.
Models == {"x", "y"}
NoModel == "null"
ModelArgs == Models \cup {NoModel}
\* The public entry points.
Ops == {"loadModel", "generateChatPrompt", "generateJSON", "generateChatStream"}
\* No call: the value of a resolved-waiter slot when nobody was resumed.
NoCall == 0

VARIABLES
    lock,            \* AsyncLock.#lock
    events,          \* the events dispatched by the latest step, in order
    queue,           \* AsyncLock.#queue: the calls whose resolve is queued
    engine,          \* #engine is non-null
    currentModelId,  \* #currentModelId
    resident,        \* backend: the model resident in the engine handle
    backend,         \* backend: per call, the backend operation in flight
    pc,              \* per call, where its code is suspended
    op,              \* per call, the entry point called
    modelId,         \* per call, the local modelId of #initEngine
    i,               \* per call, the local i of #generateWithRetry
    maxRetries,      \* per call, the maxRetries of #generateWithRetry
    chunks,          \* per call, chunks of the stream still to come
    initRes,         \* per call, how #initEngine ended
    gwrRes,          \* per call, how #generateWithRetry ended
    held,            \* history: acquisitions minus releases of the call
    waitOrder,       \* history: waiting calls in the order they began to wait
    attempts,        \* history: thunk invocations of the call's wrapper
    failed,          \* history: thunk invocations of the call that threw
    reloads,         \* history: recovery reloads issued by the call's wrapper
    idBefore,        \* history: #currentModelId when the running #initEngine took the lock
    lastInit,        \* history: target of the last finished #initEngine, NoModel after a failure
    readyAt,         \* history: per request between its #initEngine and the end of its wrapper,
                     \*   the modelReady id and the loadModel calls ahead of the wrapper
    defaultCompletionParams, \* #defaultCompletionParams
    params,          \* the argument of the latest #getParams
    request,         \* the value the latest #getParams returned
    called,          \* the latest of setDefaultParams and #getParams
    deltas,          \* history: the chunks of the streamed completion
    completion,      \* generateChatStream: the chunks still to come
    text,            \* generateChatStream: the local text
    yielded,         \* generateChatStream: the records yielded, in order
    streamPc,        \* generateChatStream: where the for-await loop is
    content,         \* generateJSON: the first choice's message content
    parsed           \* generateJSON: how the call ended

\* The session and its calls.
sessionVars == <<events, lock, queue, engine, currentModelId, resident, backend,
                 pc, op, modelId, i, maxRetries, chunks, initRes, gwrRes, held,
                 waitOrder, attempts, failed, reloads, idBefore, lastInit,
                 readyAt>>
\* What the synchronous helpers read and write.
paramVars == <<defaultCompletionParams, params, request, called>>
streamVars == <<deltas, completion, text, yielded, streamPc>>
jsonVars == <<content, parsed>>
pureVars == <<paramVars, streamVars, jsonVars>>
vars == <<sessionVars, pureVars>>

\* ------------------------------------------------------ results of a call
Pending == [kind |-> "pending", what |-> "none", attempt |-> 0]
Returned(what, k) == [kind |-> "returned", what |-> what, attempt |-> k]
Threw(what, k) == [kind |-> "threw", what |-> what, attempt |-> k]

Idle == [kind |-> "none", arg |-> NoModel]
BackendOp(kind, arg) == [kind |-> kind, arg |-> arg]

\* Mutant of ModelReady: the detail carries no model id.
ModelReady_NoId(m) == [type |-> "modelReady", modelId |-> NoModel]

\* `new CustomEvent('modelReady', { detail: { modelId } })`.
ModelReady(m) == [type |-> "modelReady", modelId |-> m]
\* A step that dispatches nothing.
NoEvent == <<>>

WaitPcs == {"init_wait", "gwr_wait"}
ResumedPcs == {"init_resumed", "gwr_resumed"}


\* ------------------------------------------------ the gap of a request
\* What is recorded of a request from the end of its #initEngine: the id
\* of its modelReady event and, oldest first, the loadModel calls that
\* were waiting for the lock at that moment (atRelease) or were called
\* before the request called its wrapper, each with its target.
NotReady == [id |-> NoModel, loads |-> <<>>]
\* The value of the history where it is not kept.
NotRecorded == [id |-> "off", loads |-> <<>>]
ReadyAt(m, loads) == [id |-> m, loads |-> loads]
QueuedLoad(d, m, atRelease) == [call |-> d, target |-> m, atRelease |-> atRelease]

\* ------------------------------------------------- completion parameters
\* The fields of CompletionParam explored, and their values.
Fields == {"temperature", "max_tokens"}
ParamValues == 1..MaxParamValue
\* A value of type CompletionParam or null: null, or an object with some of
\* the fields as own properties.
Null == [isNull |-> TRUE, own |-> <<>>]
Object(o) == [isNull |-> FALSE, own |-> o]
Objects == {Object(o) : o \in UNION {[D -> ParamValues] : D \in SUBSET Fields}}
ParamArgs == Objects \cup {Null}

\* ------------------------------------------------------------ JSON values
\* A parsed JSON value: null, a number or an array of values.
JsNull == [type |-> "null", num |-> 0, items |-> <<>>]
JsNumber(n) == [type |-> "number", num |-> n, items |-> <<>>]
JsArray(vs) == [type |-> "array", num |-> 0, items |-> vs]
\* `completion?.choices?.[0]?.message?.content`: undefined, or a string
\* (its characters in order).
NoContent == [present |-> FALSE, chars |-> <<>>]
Content(cs) == [present |-> TRUE, chars |-> cs]
\* How generateJSON ended.
NotParsed == [kind |-> "pending", value |-> JsNull]

\* ---------------------------------------------------------------- Init
\* A session right after construction: the constructor stores the model id
\* it was given (null by default); nothing is loaded, the lock is free.
InitSession ==
    /\ events = NoEvent
    /\ lock = FALSE
    /\ queue = <<>>
    /\ engine = FALSE
    /\ currentModelId \in ModelArgs
    /\ resident = NoModel
    /\ backend = [c \in Calls |-> Idle]
    /\ pc = [c \in Calls |-> "idle"]
    /\ op = [c \in Calls |-> "none"]
    /\ modelId = [c \in Calls |-> NoModel]
    /\ i = [c \in Calls |-> 0]
    /\ maxRetries = [c \in Calls |-> 0]
    /\ chunks = [c \in Calls |-> 0]
    /\ initRes = [c \in Calls |-> Pending]
    /\ gwrRes = [c \in Calls |-> Pending]
    /\ held = [c \in Calls |-> 0]
    /\ waitOrder = <<>>
    /\ attempts = [c \in Calls |-> 0]
    /\ failed = [c \in Calls |-> 0]
    /\ reloads = [c \in Calls |-> 0]
    /\ idBefore = NoModel
    /\ lastInit = NoModel

\* No helper was called: `#defaultCompletionParams = null`.
InitParams ==
    /\ defaultCompletionParams = Null
    /\ params = Null
    /\ request = Null
    /\ called = "none"

\* No completion is being streamed.
NoStream ==
    /\ deltas = <<>>
    /\ completion = <<>>
    /\ text = ""
    /\ yielded = <<>>
    /\ streamPc = "none"

\* No completion is being parsed.
NoJson ==
    /\ content = NoContent
    /\ parsed = NotParsed

InitPure == InitParams /\ NoStream /\ NoJson

\* The history readyAt is not kept.
NoGapHistory == readyAt = [c \in Calls |-> NotRecorded]

Init == InitSession /\ InitPure /\ NoGapHistory

\* ------------------------------------------------------------ AsyncLock
\* Mutant of MustWait: the held flag is not tested.
MustWait_Never(l) == FALSE

\* acquireLock: the caller is deferred when the lock is taken.
MustWait(l) == l

\* acquireLock up to its first suspension: either the resolve is queued
\* and the caller waits, or the flag is set at once.
AcquireLock(c, waitPc, lockedPc) ==
    IF MustWait(lock)
    THEN /\ queue' = Append(queue, c)
         /\ waitOrder' = Append(waitOrder, c)
         /\ pc' = [pc EXCEPT ![c] = waitPc]
         /\ UNCHANGED <<lock, held>>
    ELSE /\ lock' = TRUE
         /\ held' = [held EXCEPT ![c] = @ + 1]
         /\ pc' = [pc EXCEPT ![c] = lockedPc]
         /\ UNCHANGED <<queue, waitOrder>>

\* Mutant of ReleaseLockState: the newest waiter is resumed (pop for shift).
ReleaseLockState_Lifo(l, q) ==
    IF Len(q) > 0
    THEN [lock |-> l, queue |-> SubSeq(q, 1, Len(q) - 1), resolved |-> q[Len(q)]]
    ELSE [lock |-> FALSE, queue |-> q, resolved |-> NoCall]

\* Mutant of ReleaseLockState: the flag is not cleared without waiters.
ReleaseLockState_KeepsFlag(l, q) ==
    IF Len(q) > 0
    THEN [lock |-> l, queue |-> Tail(q), resolved |-> Head(q)]
    ELSE [lock |-> l, queue |-> q, resolved |-> NoCall]

\* releaseLock: with waiters the oldest resolve is shifted and called and
\* the flag is left set; without waiters the flag is cleared.
ReleaseLockState(l, q) ==
    IF Len(q) > 0
    THEN [lock |-> l, queue |-> Tail(q), resolved |-> Head(q)]
    ELSE [lock |-> FALSE, queue |-> q, resolved |-> NoCall]

\* The continuation of a waiter whose resolve was called.
ResumedPc(p) == IF p = "init_wait" THEN "init_resumed" ELSE "gwr_resumed"

\* releaseLock called by c, which then continues at nextPc.
ReleaseLock(c, nextPc) ==
    LET r == ReleaseLockState(lock, queue) IN
    /\ lock' = r.lock
    /\ queue' = r.queue
    /\ held' = [held EXCEPT ![c] = @ - 1]
    /\ waitOrder' = SelectSeq(waitOrder, LAMBDA w : w # r.resolved)
    /\ pc' = [d \in Calls |->
                IF d = c THEN nextPc
                ELSE IF d = r.resolved THEN ResumedPc(pc[d])
                ELSE pc[d]]

\* acquireLock after the wait: the resumed caller sets the flag.
AcquireResumed(c) ==
    /\ pc[c] \in ResumedPcs
    /\ UNCHANGED pureVars
    /\ events' = NoEvent
    /\ lock' = TRUE
    /\ held' = [held EXCEPT ![c] = @ + 1]
    /\ pc' = [pc EXCEPT ![c] = IF pc[c] = "init_resumed" THEN "init_locked"
                                                      ELSE "gwr_locked"]
    /\ UNCHANGED <<queue, waitOrder, engine, currentModelId, resident,
                   backend, op, modelId, i, maxRetries, chunks, initRes,
                   gwrRes, attempts, failed, reloads, idBefore, lastInit,
                   readyAt>>

\* ------------------------------------------------------------ API entry
\* A public entry point is called.  loadModel passes its modelId on, the
\* generation entry points call #initEngine() without one.  #initEngine
\* runs up to `await this.#lock.acquireLock()`.
Start(c) ==
    /\ pc[c] = "idle"
    /\ UNCHANGED pureVars
    /\ events' = NoEvent
    /\ IF c = 1 THEN TRUE ELSE pc[c - 1] # "idle"
    /\ \E o \in Ops, m \in ModelArgs :
        /\ o = "loadModel" \/ m = NoModel
        /\ op' = [op EXCEPT ![c] = o]
        /\ modelId' = [modelId EXCEPT ![c] = m]
        /\ readyAt' = [r \in Calls |->
                         IF /\ o = "loadModel"
                            /\ pc[r] = "gen_ready"
                            /\ readyAt[r] # NotRecorded
                         THEN [readyAt[r] EXCEPT
                                 !.loads = Append(@, QueuedLoad(c, m, FALSE))]
                         ELSE readyAt[r]]
    /\ AcquireLock(c, "init_wait", "init_locked")
    /\ UNCHANGED <<engine, currentModelId, resident, backend, i, maxRetries,
                   chunks, initRes, gwrRes, attempts, failed, reloads, idBefore,
                   lastInit>>

\* ---------------------------------------------------------- #initEngine
\* Mutant of ResolveModelId: a first catalog model when no id is known.
ResolveModelId_Fallback(m, cur) ==
    IF m # NoModel THEN m ELSE IF cur # NoModel THEN cur ELSE "x"

\* Mutant of ResolveModelId: the remembered id is ignored.
ResolveModelId_Forgets(m, cur) == IF m = NoModel THEN "x" ELSE m

\* The target of #initEngine: the id given, else the remembered one.
ResolveModelId(m, cur) == IF m = NoModel /\ cur # NoModel THEN cur ELSE m

\* Mutant of NeedsReload: every #initEngine on an existing handle reloads.
NeedsReload_Always(cur, m) == TRUE

\* The model-switch test `this.#currentModelId !== modelId`.
NeedsReload(cur, m) == cur # m

\* Mutant of NeedsCreate: a handle is created on every #initEngine.
NeedsCreate_Always(e) == TRUE

\* The test `!this.#engine`.
NeedsCreate(e) == ~e

\* Where a call continues when its #initEngine has returned.
AfterInit(o) == IF o = "loadModel" THEN "done" ELSE "gen_ready"

\* Mutant of AfterInitThrew: the entry point goes on as after a success.
AfterInitThrew_GoesOn(o) == AfterInit(o)

\* Where entry point o continues when its awaited #initEngine has thrown:
\* nothing catches, so the call ends.
AfterInitThrew(o) == "done"

\* The loadModel calls among the waiters q, oldest first, with their targets.
QueuedLoads(q, ids) ==
    LET loads == SelectSeq(q, LAMBDA d : op[d] = "loadModel") IN
    [k \in 1..Len(loads) |-> QueuedLoad(loads[k], ids[loads[k]], TRUE)]

\* The end of the try block: modelReady is dispatched, the lock released.
InitSucceed(c, m) ==
    /\ initRes' = [initRes EXCEPT ![c] = Returned("void", 0)]
    /\ modelId' = [modelId EXCEPT ![c] = NoModel]
    /\ lastInit' = m
    /\ readyAt' = [readyAt EXCEPT ![c] =
                     IF op[c] = "loadModel" \/ @ = NotRecorded THEN @
                     ELSE ReadyAt(m, QueuedLoads(queue, modelId))]
    /\ events' = <<ModelReady(m)>>
    /\ idBefore' = NoModel
    /\ ReleaseLock(c, AfterInit(op[c]))

\* catch and finally: the error is reported and rethrown, the lock released.
InitFail(c, what) ==
    /\ initRes' = [initRes EXCEPT ![c] = Threw(what, 0)]
    /\ events' = NoEvent
    /\ modelId' = [modelId EXCEPT ![c] = NoModel]
    /\ lastInit' = NoModel
    /\ idBefore' = NoModel
    /\ UNCHANGED readyAt
    /\ ReleaseLock(c, AfterInitThrew(op[c]))

\* `this.#currentModelId = modelId; await this.#engine.reload(modelId)`.
InitStartReload(c, m) ==
    /\ currentModelId' = m
    /\ events' = NoEvent
    /\ backend' = [backend EXCEPT ![c] = BackendOp("reload", m)]
    /\ pc' = [pc EXCEPT ![c] = "init_reloading"]
    /\ UNCHANGED <<lock, queue, held, waitOrder, initRes, lastInit,
                   readyAt>>

\* #initEngine from the lock to its first backend call or to its end.
InitBody(c) ==
    /\ pc[c] = "init_locked"
    /\ UNCHANGED pureVars
    /\ LET m == ResolveModelId(modelId[c], currentModelId) IN
       IF m = NoModel
       THEN /\ InitFail(c, "ModelIdRequired")
            /\ UNCHANGED <<engine, currentModelId, resident, backend>>
       ELSE IF NeedsCreate(engine)
       THEN /\ currentModelId' = m
            /\ events' = NoEvent
            /\ backend' = [backend EXCEPT ![c] = BackendOp("create", m)]
            /\ modelId' = [modelId EXCEPT ![c] = m]
            /\ idBefore' = currentModelId
            /\ pc' = [pc EXCEPT ![c] = "init_creating"]
            /\ UNCHANGED <<lock, queue, held, waitOrder, engine, resident,
                           initRes, lastInit,
                           readyAt>>
       ELSE IF NeedsReload(currentModelId, m)
       THEN /\ InitStartReload(c, m)
            /\ modelId' = [modelId EXCEPT ![c] = m]
            /\ idBefore' = currentModelId
            /\ UNCHANGED <<engine, resident>>
       ELSE /\ InitSucceed(c, m)
            /\ UNCHANGED <<engine, currentModelId, resident, backend>>
    /\ UNCHANGED <<op, i, maxRetries, chunks, gwrRes, attempts, failed, reloads>>

\* CreateMLCEngine returns the handle; the switch test follows.
CreateOk(c) ==
    /\ pc[c] = "init_creating"
    /\ UNCHANGED pureVars
    /\ engine' = TRUE
    /\ resident' = backend[c].arg
    /\ IF NeedsReload(currentModelId, modelId[c])
       THEN /\ InitStartReload(c, modelId[c])
            /\ UNCHANGED <<modelId, idBefore>>
       ELSE /\ InitSucceed(c, modelId[c])
            /\ backend' = [backend EXCEPT ![c] = Idle]
            /\ UNCHANGED currentModelId
    /\ UNCHANGED <<op, i, maxRetries, chunks, gwrRes, attempts, failed, reloads>>

\* CreateMLCEngine throws: no handle is stored.
CreateFail(c) ==
    /\ pc[c] = "init_creating"
    /\ UNCHANGED pureVars
    /\ backend' = [backend EXCEPT ![c] = Idle]
    /\ InitFail(c, "CreateFailed")
    /\ UNCHANGED <<engine, currentModelId, resident, op, i, maxRetries,
                   chunks, gwrRes, attempts, failed, reloads>>

\* engine.reload returns: the target is resident.
ReloadOk(c) ==
    /\ pc[c] = "init_reloading"
    /\ UNCHANGED pureVars
    /\ resident' = backend[c].arg
    /\ backend' = [backend EXCEPT ![c] = Idle]
    /\ InitSucceed(c, modelId[c])
    /\ UNCHANGED <<engine, currentModelId, op, i, maxRetries, chunks, gwrRes,
                   attempts, failed, reloads>>

\* What a reload that throws can leave resident: the old model or none.
AfterFailedReload(res) == {res, NoModel}

\* engine.reload throws.
ReloadFail(c) ==
    /\ pc[c] = "init_reloading"
    /\ UNCHANGED pureVars
    /\ resident' \in AfterFailedReload(resident)
    /\ backend' = [backend EXCEPT ![c] = Idle]
    /\ InitFail(c, "ReloadFailed")
    /\ UNCHANGED <<engine, currentModelId, op, i, maxRetries, chunks, gwrRes,
                   attempts, failed, reloads>>

\* --------------------------------------------------- #generateWithRetry
\* Mutant of LoopTest: one attempt too many (<= for <).
LoopTest_OffByOne(n, max) == n <= max

\* The loop test `i++ < maxRetries`, on the value of i before the ++.
LoopTest(n, max) == n < max

\* The test `maxRetries <= 0` of the catch block, which rethrows.
GiveUp(max) == max <= 0

\* What the wrapper's caller gets from a completion that returned.
Completion(o) == IF o = "generateChatStream" THEN "stream" ELSE "completion"

\* The wrapper ends: finally releases the lock, the entry point continues.
\* A streamed completion that was returned is then consumed chunk by chunk.
GwrEnd(c, res) ==
    /\ gwrRes' = [gwrRes EXCEPT ![c] = res]
    /\ readyAt' = [readyAt EXCEPT ![c] = IF @ = NotRecorded THEN @ ELSE NotReady]
    /\ i' = [i EXCEPT ![c] = 0]
    /\ IF res.kind = "returned" /\ res.what = "stream"
       THEN /\ \E n \in 0..MaxChunks : chunks' = [chunks EXCEPT ![c] = n]
            /\ backend' = [backend EXCEPT ![c] = BackendOp("streaming", NoModel)]
            /\ ReleaseLock(c, "streaming")
       ELSE /\ backend' = [backend EXCEPT ![c] = Idle]
            /\ ReleaseLock(c, "done")
            /\ UNCHANGED chunks

\* One evaluation of the loop head with i = n, and what follows it up to
\* the next await: the thunk is called, or the loop and the wrapper end.
\* Without an engine handle the thunk throws a TypeError, and so does the
\* reload of the catch block.
LoopStep(c, n) ==
    IF LoopTest(n, maxRetries[c])
    THEN /\ attempts' = [attempts EXCEPT ![c] = @ + 1]
         /\ IF engine
            THEN /\ failed' = failed
                 /\ i' = [i EXCEPT ![c] = n + 1]
                 /\ backend' = [backend EXCEPT ![c] = BackendOp("complete", NoModel)]
                 /\ pc' = [pc EXCEPT ![c] = "gwr_completing"]
                 /\ UNCHANGED <<lock, queue, held, waitOrder, gwrRes, chunks,
                                readyAt>>
            ELSE /\ failed' = [failed EXCEPT ![c] = @ + 1]
                 /\ GwrEnd(c, Threw("TypeError", n + 1))
    ELSE /\ GwrEnd(c, Returned("undefined", 0))
         /\ UNCHANGED <<attempts, failed>>

\* The entry point continues after `await this.#initEngine()`: it builds
\* the request and calls the wrapper, which runs up to acquireLock.
GwrCall(c, retries) ==
    /\ pc[c] = "gen_ready"
    /\ UNCHANGED pureVars
    /\ events' = NoEvent
    /\ \E r \in retries : maxRetries' = [maxRetries EXCEPT ![c] = r]
    /\ AcquireLock(c, "gwr_wait", "gwr_locked")
    /\ UNCHANGED <<engine, currentModelId, resident, backend, op, modelId, i,
                   chunks, initRes, gwrRes, attempts, failed, reloads, idBefore,
                   lastInit,
                   readyAt>>

\* `let i = 0` and the first evaluation of the loop head.
GwrEnter(c) ==
    /\ pc[c] = "gwr_locked"
    /\ UNCHANGED pureVars
    /\ events' = NoEvent
    /\ LoopStep(c, 0)
    /\ UNCHANGED <<engine, currentModelId, resident, op, modelId, maxRetries,
                   initRes, reloads, idBefore, lastInit>>

\* chatCompletion returns: `return await func()`.
CompletionOk(c) ==
    /\ pc[c] = "gwr_completing"
    /\ UNCHANGED pureVars
    /\ events' = NoEvent
    /\ GwrEnd(c, Returned(Completion(op[c]), i[c]))
    /\ UNCHANGED <<engine, currentModelId, resident, op, modelId, maxRetries,
                   initRes, attempts, failed, reloads, idBefore, lastInit>>

\* chatCompletion throws: the catch block rethrows or reloads the model.
CompletionFail(c) ==
    /\ pc[c] = "gwr_completing"
    /\ UNCHANGED pureVars
    /\ events' = NoEvent
    /\ lastInit' = NoModel
    /\ failed' = [failed EXCEPT ![c] = @ + 1]
    /\ IF GiveUp(maxRetries[c])
       THEN /\ GwrEnd(c, Threw("GenerationFailed", i[c]))
            /\ UNCHANGED reloads
       ELSE /\ backend' = [backend EXCEPT ![c] = BackendOp("reload", currentModelId)]
            /\ reloads' = [reloads EXCEPT ![c] = @ + 1]
            /\ pc' = [pc EXCEPT ![c] = "gwr_reloading"]
            /\ UNCHANGED <<lock, queue, held, waitOrder, gwrRes, i, chunks,
                           readyAt>>
    /\ UNCHANGED <<engine, currentModelId, resident, op, modelId, maxRetries,
                   initRes, attempts, idBefore>>

\* The recovery reload returns; the loop head is evaluated again.
RecoveryReloadOk(c) ==
    /\ pc[c] = "gwr_reloading"
    /\ UNCHANGED pureVars
    /\ events' = NoEvent
    /\ resident' = backend[c].arg
    /\ LoopStep(c, i[c])
    /\ UNCHANGED <<engine, currentModelId, op, modelId, maxRetries, initRes,
                   reloads, idBefore, lastInit>>

\* Mutant of RecoveryReloadFail: the error of the reload is swallowed and
\* the loop goes on.
RecoveryReloadFail_GoesOn(c) ==
    /\ pc[c] = "gwr_reloading"
    /\ UNCHANGED pureVars
    /\ events' = NoEvent
    /\ resident' \in AfterFailedReload(resident)
    /\ lastInit' = NoModel
    /\ LoopStep(c, i[c])
    /\ UNCHANGED <<engine, currentModelId, op, modelId, maxRetries, initRes,
                   reloads, idBefore>>

\* The recovery reload throws out of the catch block.
RecoveryReloadFail(c) ==
    /\ pc[c] = "gwr_reloading"
    /\ UNCHANGED pureVars
    /\ events' = NoEvent
    /\ resident' \in AfterFailedReload(resident)
    /\ lastInit' = NoModel
    /\ GwrEnd(c, Threw("RecoveryReloadFailed", i[c]))
    /\ UNCHANGED <<engine, currentModelId, op, modelId, maxRetries, initRes,
                   attempts, failed, reloads, idBefore>>

\* ------------------------------------------------- generateChatStream
\* The for-await loop takes one chunk and yields the text so far.
StreamChunk(c) ==
    /\ pc[c] = "streaming"
    /\ UNCHANGED pureVars
    /\ events' = NoEvent
    /\ chunks[c] > 0
    /\ chunks' = [chunks EXCEPT ![c] = @ - 1]
    /\ UNCHANGED <<lock, queue, engine, currentModelId, resident, backend, pc,
                   op, modelId, i, maxRetries, initRes, gwrRes, held,
                   waitOrder, attempts, failed, reloads, idBefore, lastInit,
                   readyAt>>

\* The backend's chunk sequence ends, and with it the generator.
StreamEnd(c) ==
    /\ pc[c] = "streaming"
    /\ UNCHANGED pureVars
    /\ events' = NoEvent
    /\ chunks[c] = 0
    /\ backend' = [backend EXCEPT ![c] = Idle]
    /\ pc' = [pc EXCEPT ![c] = "done"]
    /\ UNCHANGED <<lock, queue, engine, currentModelId, resident, op, modelId,
                   i, maxRetries, chunks, initRes, gwrRes, held, waitOrder,
                   attempts, failed, reloads, idBefore, lastInit,
                   readyAt>>

\* -------------------------------------------------------- specification
NextWith(retries, calls) ==
    \E c \in calls :
        \/ Start(c)
        \/ AcquireResumed(c)
        \/ InitBody(c)
        \/ CreateOk(c)
        \/ CreateFail(c)
        \/ ReloadOk(c)
        \/ ReloadFail(c)
        \/ GwrCall(c, retries)
        \/ GwrEnter(c)
        \/ CompletionOk(c)
        \/ CompletionFail(c)
        \/ RecoveryReloadOk(c)
        \/ RecoveryReloadFail(c)
        \/ StreamChunk(c)
        \/ StreamEnd(c)

\* The program: every call site leaves maxRetries at its default.
Next == NextWith({DefaultMaxRetries}, Calls)
Spec == Init /\ [][Next]_vars

\* The wrapper under every maxRetries from 1 to MaxRetriesBound, called by
\* the first RetryCalls calls.
NextRetry == NextWith(1..MaxRetriesBound, 1..RetryCalls)
SpecRetry == Init /\ [][NextRetry]_vars

\* ------------------------------------------------ results of the entry points
\* What the entry point called by c gives its caller once c is done:
\* loadModel gives what #initEngine gave; a generation gives up when
\* #initEngine threw, and else post-processes what the wrapper returned
\* (`?? ''`, #tryParse of null, for-await over undefined).
ApiResult(c) ==
    IF initRes[c].kind = "threw" \/ op[c] = "loadModel" THEN initRes[c]
    ELSE IF gwrRes[c].kind # "returned" THEN gwrRes[c]
    ELSE IF gwrRes[c].what # "undefined" THEN gwrRes[c]
    ELSE IF op[c] = "generateChatPrompt" THEN Returned("emptyText", 0)
    ELSE IF op[c] = "generateJSON" THEN Returned("null", 0)
    ELSE Threw("TypeError", 0)

\* ------------------------------------------------------------- the claims
\* Calls for which a create, a reload or a completion call has been started
\* and has neither returned nor thrown.
InFlight == {c \in Calls : backend[c].kind \in {"create", "reload", "complete"}}
\* Calls that hold the mutex.
Holders == {c \in Calls : held[c] >= 1}
\* No call is inside #initEngine or #generateWithRetry.
NoLockUser == \A c \in Calls : pc[c] \in {"idle", "done", "gen_ready", "streaming"}

\* C1: at every instant at most one create, reload or completion call is
\* executing against the engine, and the call that started it is the one
\* and only holder of the session mutex.
C1_OneBackendOperation ==
    /\ Cardinality(InFlight) <= 1
    /\ Cardinality(Holders) <= 1
    /\ \A c \in InFlight : lock /\ held[c] = 1

\* C1 witness: a completion call is in flight while another caller waits.
C1_Witness ==
    \E c, d \in Calls :
        /\ backend[c].kind = "complete"
        /\ op[c] \in {"generateChatPrompt", "generateJSON"}
        /\ pc[d] \in WaitPcs
        /\ op[d] # "generateChatStream"

\* C2 (as claimed): while a streamed completion has been issued and chunks
\* of it are still to come, no other backend operation is in flight.
C2_StreamProtected ==
    \A c, d \in Calls :
        (c # d /\ backend[c].kind = "streaming" /\ chunks[c] > 0)
            => backend[d].kind = "none"

\* C3 (as claimed): when the thunk has failed on every allowed attempt and
\* the wrapper has ended, it has thrown the failure of the final attempt,
\* and the entry point rejects with it.
C3_FinalFailureRethrown ==
    \A c \in Calls :
        (maxRetries[c] >= 1 /\ failed[c] = maxRetries[c]
            /\ gwrRes[c].kind # "pending")
            => /\ gwrRes[c] = Threw("GenerationFailed", maxRetries[c])
               /\ ApiResult(c) = gwrRes[c]

\* C4 (as claimed): the thunk is attempted at most maxRetries times and at
\* most maxRetries - 1 reloads are issued per call of the wrapper.
C4_RetryBound ==
    \A c \in Calls :
        maxRetries[c] >= 1
            => /\ attempts[c] <= maxRetries[c]
               /\ reloads[c] <= maxRetries[c] - 1

\* C5: a wrapper that returned a completion returned the one of its last
\* attempt k <= maxRetries, after k - 1 failed attempts and k - 1 reloads,
\* and has nothing in flight but, for a stream, the chunks of that result.
C5_SuccessShortCircuits ==
    \A c \in Calls :
        (gwrRes[c].kind = "returned" /\ gwrRes[c].what # "undefined")
            => /\ gwrRes[c].attempt = attempts[c]
               /\ attempts[c] <= maxRetries[c]
               /\ failed[c] = attempts[c] - 1
               /\ reloads[c] = attempts[c] - 1
               /\ backend[c].kind \in {"none", "streaming"}
               /\ held[c] = 0

\* C5 witness: maxRetries = 2, fail then succeed: one reload, result of
\* attempt 2.
C5_Witness ==
    \E c \in Calls :
        /\ maxRetries[c] = 2
        /\ gwrRes[c] = Returned("completion", 2)
        /\ failed[c] = 1
        /\ reloads[c] = 1

\* C6 (as claimed): whenever the mutex is free and an engine handle exists,
\* #currentModelId is the model resident in the handle.
C6_LoadedIdIsResident ==
    (~lock /\ engine) => currentModelId = resident

\* C7 (as claimed): a step in which the create or the reload of #initEngine
\* throws leaves #currentModelId at the value it had when that #initEngine
\* began.
C7_IdKeptOnFailure ==
    [][\A c \in Calls :
        (pc[c] \in {"init_creating", "init_reloading"}
            /\ initRes'[c].kind = "threw")
            => currentModelId' = idBefore]_vars

\* C8: the waiter that is resumed is the one that has waited longest; the
\* lock stays set while anyone waits or has been resumed and has not yet
\* continued, so that a caller arriving then queues behind them; a release
\* that finds no waiter clears the flag.
C8_Fifo ==
    [][/\ \A w \in Calls :
            (pc[w] \in WaitPcs /\ pc'[w] \notin WaitPcs)
                => w = Head(waitOrder) /\ lock /\ lock'
       /\ (queue' # <<>> \/ \E w \in Calls : pc'[w] \in ResumedPcs) => lock'
       /\ \A c \in Calls :
            (held'[c] < held[c] /\ queue = <<>>) => ~lock']_vars

\* C8 witness: the lock has been handed to one waiter while another one is
\* still queued.
C8_Witness ==
    \E a, b \in Calls :
        /\ a # b
        /\ pc[a] \in ResumedPcs
        /\ pc[b] \in WaitPcs
        /\ queue = <<b>>
        /\ lock

\* C9: a call holds the lock at most once and never releases what it does
\* not hold; while a call holds it the flag is set; a finished call holds
\* nothing; when no call is inside #initEngine or the wrapper the lock is
\* free and nobody is queued.
C9_AcquireReleasePaired ==
    /\ \A c \in Calls : held[c] \in {0, 1}
    /\ (Holders # {}) => lock
    /\ \A c \in Calls : pc[c] = "done" => held[c] = 0
    /\ NoLockUser => (~lock /\ queue = <<>> /\ Holders = {})

\* C9 witness: calls have ended on the missing-id path, on a failed switch
\* and on a failed recovery reload, and the lock is free again.
C9_Witness ==
    /\ NoLockUser
    /\ ~lock
    /\ \E c, d, e \in Calls :
        /\ pc[c] = "done" /\ initRes[c] = Threw("ModelIdRequired", 0)
        /\ pc[d] = "done" /\ initRes[d].kind = "returned"
        /\ pc[e] = "done" /\ gwrRes[e].what = "RecoveryReloadFailed"

\* C10: an #initEngine whose target is the target of the previous
\* #initEngine, which succeeded, with no failure since, starts no backend
\* call and changes neither the handle nor #currentModelId; and no
\* #initEngine follows its create by a reload.
C10_NoOpSwitch ==
    [][\A c \in Calls :
        /\ (pc[c] = "init_locked" /\ pc'[c] # pc[c]
                /\ lastInit # NoModel
                /\ ResolveModelId(modelId[c], currentModelId) = lastInit)
            => /\ backend'[c].kind = "none"
               /\ initRes'[c].kind = "returned"
               /\ engine' = engine
               /\ currentModelId' = currentModelId
               /\ resident' = resident
        /\ pc[c] = "init_creating" => pc'[c] # "init_reloading"]_vars

\* C10 witness: loadModel(x) has taken the lock right after an
\* #initEngine with target x succeeded.
C10_Witness ==
    \E c \in Calls :
        /\ pc[c] = "init_locked"
        /\ op[c] = "loadModel"
        /\ modelId[c] \in Models
        /\ modelId[c] = lastInit
        /\ engine

\* C11: the handle, once stored, stays; it is stored only by a create that
\* returns, a create is started and returns only while there is no handle
\* (so at most one create ever succeeds), and every reload is started on
\* the existing handle.
C11_HandleCreatedOnce ==
    [][/\ engine => engine'
       /\ (engine' # engine) =>
            \E c \in Calls : pc[c] = "init_creating" /\ pc'[c] # pc[c]
       /\ \A c \in Calls :
            /\ (pc[c] = "init_creating" /\ pc'[c] # pc[c]
                    /\ initRes'[c].kind # "threw") => (~engine /\ engine')
            /\ (backend'[c].kind = "create" /\ backend[c].kind # "create")
                    => ~engine
            /\ (backend'[c].kind = "reload" /\ backend[c].kind # "reload")
                    => engine']_vars

\* C11 witness: with the handle of an earlier loadModel in place, a
\* generation's wrapper recovers by a reload.
C11_Witness ==
    \E c, d \in Calls :
        /\ c # d
        /\ engine
        /\ op[d] = "loadModel" /\ initRes[d].kind = "returned"
        /\ pc[c] = "gwr_reloading" /\ backend[c].kind = "reload"

\* C12: a step in which an #initEngine returns dispatches exactly one
\* modelReady event, carrying the resolved target, which is #currentModelId
\* at that moment; a step in which an #initEngine throws dispatches none;
\* and no other step dispatches any.
C12_ModelReadyOncePerSuccess ==
    [][/\ \A c \in Calls :
            /\ (initRes[c].kind = "pending" /\ initRes'[c].kind = "returned")
                => /\ Len(events') = 1
                   /\ events'[1].type = "modelReady"
                   /\ events'[1].modelId = ResolveModelId(modelId[c], currentModelId)
                   /\ events'[1].modelId = currentModelId'
            /\ (initRes[c].kind = "pending" /\ initRes'[c].kind = "threw")
                => events' = <<>>
       /\ (events' # <<>>) =>
            \E c \in Calls :
                initRes[c].kind = "pending" /\ initRes'[c].kind = "returned"]_vars

\* C12 witness: a model switch has just succeeded and dispatched its event.
C12_Witness ==
    \E c \in Calls :
        /\ op[c] = "loadModel"
        /\ initRes[c].kind = "returned"
        /\ Len(events) = 1
        /\ events[1].modelId = currentModelId
        /\ \E d \in Calls : d # c /\ initRes[d].kind = "threw"

\* ------------------------------------------------- getCurrentModelInfo
\* #modelToViewModel of the catalog entry with the given id; null when the
\* catalog has no such entry.
NoInfo == [id |-> NoModel]
ModelToViewModel(m) == IF m \in Models THEN [id |-> m] ELSE NoInfo

\* getCurrentModelInfo: reads #currentModelId, without the lock.
GetCurrentModelInfo ==
    IF currentModelId = NoModel THEN NoInfo ELSE ModelToViewModel(currentModelId)

\* C13 (as claimed): while the create or the reload of an #initEngine is in
\* flight, getCurrentModelInfo still returns what it returned before that
\* #initEngine began.
C13_PendingNotReported ==
    \A c \in Calls :
        (pc[c] \in {"init_creating", "init_reloading"}
            /\ backend[c].kind \in {"create", "reload"})
            => GetCurrentModelInfo = ModelToViewModel(idBefore)

\* C14: an #initEngine that runs without a model id on a session that
\* remembers none throws "Model ID is required", starts no backend call,
\* dispatches no event and leaves the handle and #currentModelId null; the
\* entry point ends there, so a generation never reaches the wrapper.
C14_ModelIdRequired ==
    [][\A c \in Calls :
        (pc[c] = "init_locked" /\ pc'[c] # pc[c]
            /\ modelId[c] = NoModel /\ currentModelId = NoModel)
            => /\ initRes'[c] = Threw("ModelIdRequired", 0)
               /\ pc'[c] = "done"
               /\ ApiResult(c)' = Threw("ModelIdRequired", 0)
               /\ backend' = backend
               /\ \A d \in Calls : backend[d].kind = "none"
               /\ events' = <<>>
               /\ ~engine /\ ~engine'
               /\ currentModelId' = NoModel
               /\ attempts'[c] = 0 /\ gwrRes'[c] = Pending
               /\ held'[c] = 0]_vars

\* C14 witness: a generation entry point has failed for want of a model id.
C14_Witness ==
    \E c \in Calls :
        /\ op[c] \in {"generateChatPrompt", "generateJSON", "generateChatStream"}
        /\ pc[c] = "done"
        /\ initRes[c] = Threw("ModelIdRequired", 0)
        /\ currentModelId = NoModel
        /\ ~engine

\* C18: #initEngine starts a create or a reload only as its first step
\* under the lock, and when that one call returns or throws #initEngine
\* ends: no second backend call, no retry; a failure is what the entry
\* point's caller gets.
C18_InitNotRetried ==
    [][\A c \in Calls :
        /\ (backend'[c].kind \in {"create", "reload"}
                /\ backend[c].kind = "none"
                /\ pc'[c] \in {"init_creating", "init_reloading"})
            => pc[c] = "init_locked"
        /\ (pc[c] \in {"init_creating", "init_reloading"} /\ pc'[c] # pc[c])
            => /\ backend'[c].kind = "none"
               /\ initRes'[c].kind \in {"returned", "threw"}
               /\ pc'[c] \in {"done", "gen_ready"}
               /\ initRes'[c].kind = "threw"
                    => (pc'[c] = "done" /\ ApiResult(c)' = initRes'[c])]_vars

\* C18 witness: a model switch has failed and loadModel has ended with
\* that failure.
C18_Witness ==
    \E c \in Calls :
        /\ op[c] = "loadModel"
        /\ pc[c] = "done"
        /\ initRes[c] = Threw("ReloadFailed", 0)
        /\ backend[c].kind = "none"

\* The generation entry points.
GenOps == {"generateChatPrompt", "generateJSON", "generateChatStream"}

\* C20: once a handle exists, the #initEngine() of a generation entry
\* point resolves its target to the #currentModelId it finds under the
\* lock: it starts no backend call, leaves #currentModelId as it is and
\* succeeds; and #currentModelId then changes only in the #initEngine of a
\* loadModel whose explicit id differs from it.
C20_GenerationNeverSwitches ==
    [][/\ \A c \in Calls :
            (op[c] \in GenOps /\ pc[c] = "init_locked" /\ pc'[c] # pc[c]
                /\ engine)
                => /\ backend'[c].kind = "none"
                   /\ currentModelId' = currentModelId
                   /\ resident' = resident
                   /\ initRes'[c].kind = "returned"
       /\ (engine /\ currentModelId' # currentModelId) =>
            \E c \in Calls :
                /\ op[c] = "loadModel"
                /\ pc[c] = "init_locked"
                /\ modelId[c] \notin {NoModel, currentModelId}
                /\ currentModelId' = modelId[c]]_vars

\* C20 witness: a generation that had to wait for the lock is resumed
\* after a loadModel('y') has switched the model, and is about to run its
\* #initEngine with 'y' loaded.
C20_Witness ==
    \E c, d \in Calls :
        /\ d < c
        /\ op[d] = "loadModel" /\ pc[d] = "done" /\ initRes[d].kind = "returned"
        /\ op[c] \in GenOps /\ pc[c] = "init_resumed"
        /\ engine
        /\ currentModelId = "y" /\ lastInit = "y"

\* ------------------------------------------------------------- progress
\* Every step of call c but its invocation: the continuations the event
\* loop runs once they are ready, and the returns and throws of the
\* backend calls, which are assumed to end.
CallStep(c) ==
    \/ AcquireResumed(c)
    \/ InitBody(c)
    \/ CreateOk(c)
    \/ CreateFail(c)
    \/ ReloadOk(c)
    \/ ReloadFail(c)
    \/ GwrCall(c, {DefaultMaxRetries})
    \/ GwrEnter(c)
    \/ CompletionOk(c)
    \/ CompletionFail(c)
    \/ RecoveryReloadOk(c)
    \/ RecoveryReloadFail(c)
    \/ StreamChunk(c)
    \/ StreamEnd(c)

\* The program under a fair event loop and a backend whose calls end.
Fairness == \A c \in Calls : WF_vars(CallStep(c))
SpecLive == Init /\ [][Next]_vars /\ Fairness

\* C19: every call that has been made ends (returns or throws): it gets
\* the lock each time it asks for it and is never left waiting.
C19_EveryCallCompletes ==
    \A c \in Calls : (pc[c] # "idle") ~> (pc[c] = "done")

\* C19 witness: two calls are queued behind the holder of the lock.
C19_Witness ==
    /\ Len(queue) >= 2
    /\ \E c \in Calls : held[c] = 1 /\ backend[c].kind # "none"

\* ------------------------------------ setDefaultParams and #getParams
\* `{ ...o }`: the own properties of o; null has none.
Spread(o) == IF o.isNull THEN <<>> ELSE o.own

\* Mutant of SpreadBoth: a property of the first operand is kept.
SpreadBoth_FirstWins(a, b) ==
    [f \in DOMAIN Spread(a) \cup DOMAIN Spread(b) |->
        IF f \in DOMAIN Spread(a) THEN Spread(a)[f] ELSE Spread(b)[f]]

\* `{ ...a, ...b }`: the properties of a, then those of b over them.
SpreadBoth(a, b) ==
    [f \in DOMAIN Spread(a) \cup DOMAIN Spread(b) |->
        IF f \in DOMAIN Spread(b) THEN Spread(b)[f] ELSE Spread(a)[f]]

\* setDefaultParams(params): the session default becomes a copy.
SetDefaultParams(p) ==
    /\ params' = p
    /\ defaultCompletionParams' = Object(Spread(p))
    /\ called' = "setDefaultParams"
    /\ UNCHANGED request
    /\ UNCHANGED <<sessionVars, streamVars, jsonVars>>

\* #getParams(params), called by each generation entry point to build its
\* request.
GetParams(p) ==
    /\ params' = p
    /\ request' = Object(SpreadBoth(defaultCompletionParams, p))
    /\ called' = "getParams"
    /\ UNCHANGED defaultCompletionParams
    /\ UNCHANGED <<sessionVars, streamVars, jsonVars>>

\* Any sequence of calls of the two helpers on a fresh session.
NextParams ==
    \E p \in ParamArgs :
        \/ SetDefaultParams(p)
        \/ GetParams(p)
SpecParams == Init /\ [][NextParams]_vars

\* Object o has own property f.
Has(o, f) == ~o.isNull /\ f \in DOMAIN o.own

\* C17: #getParams returns, field by field, the override's value if the
\* override sets the field, else the session default's value, else no such
\* field, and leaves the session default as it was; the session default is
\* what the last setDefaultParams was given.
C17_ShallowMerge ==
    [][/\ called' = "getParams" =>
            /\ ~request'.isNull
            /\ \A f \in Fields :
                IF Has(params', f)
                THEN Has(request', f) /\ request'.own[f] = params'.own[f]
                ELSE IF Has(defaultCompletionParams, f)
                THEN /\ Has(request', f)
                     /\ request'.own[f] = defaultCompletionParams.own[f]
                ELSE ~Has(request', f)
            /\ defaultCompletionParams' = defaultCompletionParams
       /\ called' = "setDefaultParams" =>
            \A f \in Fields :
                /\ Has(defaultCompletionParams', f) <=> Has(params', f)
                /\ Has(params', f) =>
                     defaultCompletionParams'.own[f] = params'.own[f]
      ]_vars

\* C17 witness: the override replaces one field of the session default and
\* leaves the other to it.
C17_Witness ==
    /\ called = "getParams"
    /\ Has(defaultCompletionParams, "temperature")
    /\ Has(defaultCompletionParams, "max_tokens")
    /\ Has(params, "temperature") /\ ~Has(params, "max_tokens")
    /\ params.own["temperature"] # defaultCompletionParams.own["temperature"]
    /\ request.own["temperature"] = params.own["temperature"]
    /\ request.own["max_tokens"] = defaultCompletionParams.own["max_tokens"]

\* ------------------------------------- generateChatStream: the records
\* The content deltas a chunk may carry.
DeltaStrings == {"", "Hel", "lo", "!"}
\* A chunk of the backend's sequence, with or without
\* `choices[0].delta.content`.
Chunk(s) == [hasContent |-> TRUE, content |-> s]
EmptyChunk == [hasContent |-> FALSE, content |-> ""]
Chunks == {Chunk(s) : s \in DeltaStrings} \cup {EmptyChunk}
ChunkSeqs == UNION {[1..n -> Chunks] : n \in 0..MaxDeltas}

\* `choice?.choices?.[0]?.delta?.content ?? ''`.
Delta(choice) == IF choice.hasContent THEN choice.content ELSE ""

\* Mutant of Accumulate: the text is replaced by the delta.
Accumulate_DeltaOnly(t, choice) == Delta(choice)

\* `text += ...`.
Accumulate(t, choice) == t \o Delta(choice)

\* `{ text: text, swipes: [], logprobs: null }`.
Record(t) == [text |-> t, swipes |-> <<>>, logprobs |-> "null"]

\* The wrapper has returned the backend's chunk sequence; `let text = ''`.
InitStream ==
    /\ InitSession
    /\ NoGapHistory
    /\ InitParams
    /\ NoJson
    /\ deltas \in ChunkSeqs
    /\ completion = deltas
    /\ text = ""
    /\ yielded = <<>>
    /\ streamPc = "iterating"

\* One turn of the for-await loop: the next chunk is added to the text and
\* a record is yielded.
StreamYield ==
    /\ streamPc = "iterating"
    /\ completion # <<>>
    /\ text' = Accumulate(text, Head(completion))
    /\ yielded' = Append(yielded, Record(text'))
    /\ completion' = Tail(completion)
    /\ UNCHANGED <<deltas, streamPc>>
    /\ UNCHANGED <<sessionVars, paramVars, jsonVars>>

\* The backend's sequence is exhausted: the generator returns.
StreamReturn ==
    /\ streamPc = "iterating"
    /\ completion = <<>>
    /\ streamPc' = "returned"
    /\ UNCHANGED <<deltas, completion, text, yielded>>
    /\ UNCHANGED <<sessionVars, paramVars, jsonVars>>

NextStream ==
    \/ StreamYield
    \/ StreamReturn
SpecStream == InitStream /\ [][NextStream]_vars

\* The content delta of chunk k, the empty string if it has none.
DeltaOf(k) == IF deltas[k].hasContent THEN deltas[k].content ELSE ""
\* The concatenation of the content deltas of chunks 1..k.
RECURSIVE Concatenated(_)
Concatenated(k) == IF k = 0 THEN "" ELSE Concatenated(k - 1) \o DeltaOf(k)

\* C16: one record is yielded per chunk consumed, the k-th carrying the
\* concatenation of the content deltas 1..k (so each text extends the one
\* before), and the generator returns exactly when the backend's sequence
\* has ended, having yielded one record per chunk.
C16_CumulativeStreaming ==
    /\ Len(yielded) = Len(deltas) - Len(completion)
    /\ \A k \in 1..Len(yielded) :
        /\ yielded[k].text = Concatenated(k)
        /\ yielded[k].swipes = <<>>
        /\ yielded[k].logprobs = "null"
    /\ \A k \in 1..(Len(yielded) - 1) :
        \E s \in DeltaStrings : yielded[k + 1].text = yielded[k].text \o s
    /\ streamPc = "returned" =>
        /\ completion = <<>>
        /\ Len(yielded) = Len(deltas)

\* C16 witness: the deltas "Hel", "lo", "!" were yielded as "Hel", "Hello",
\* "Hello!" and the generator has returned.
C16_Witness ==
    /\ streamPc = "returned"
    /\ deltas = <<Chunk("Hel"), Chunk("lo"), Chunk("!")>>
    /\ yielded = <<Record("Hel"), Record("Hello"), Record("Hello!")>>

\* ------------------------------------------- generateJSON: #tryParse
\* JSON.parse on the grammar of null, unsigned integers and arrays.  A
\* parse step returns the value read and the characters left, or fails.
Ok(v, rest) == [ok |-> TRUE, value |-> v, rest |-> rest]
Fail == [ok |-> FALSE, value |-> JsNull, rest |-> <<>>]

Whitespace == {" ", "\t", "\n", "\r"}
DigitChars == <<"0", "1", "2", "3", "4", "5", "6", "7", "8", "9">>
IsDigit(ch) == \E k \in 1..Len(DigitChars) : DigitChars[k] = ch
DigitValue(ch) == (CHOOSE k \in 1..Len(DigitChars) : DigitChars[k] = ch) - 1
NullWord == <<"n", "u", "l", "l">>

RECURSIVE SkipWs(_)
SkipWs(cs) ==
    IF cs # <<>> /\ Head(cs) \in Whitespace THEN SkipWs(Tail(cs)) ELSE cs

RECURSIVE ParseDigits(_, _)
ParseDigits(cs, acc) ==
    IF cs # <<>> /\ IsDigit(Head(cs))
    THEN ParseDigits(Tail(cs), 10 * acc + DigitValue(Head(cs)))
    ELSE Ok(JsNumber(acc), cs)

\* A number: a lone 0, or digits that do not start with 0.
ParseNumber(cs) ==
    IF Head(cs) = "0" THEN Ok(JsNumber(0), Tail(cs)) ELSE ParseDigits(cs, 0)

ParseLiteral(cs, word, v) ==
    IF Len(cs) >= Len(word) /\ SubSeq(cs, 1, Len(word)) = word
    THEN Ok(v, SubSeq(cs, Len(word) + 1, Len(cs)))
    ELSE Fail

RECURSIVE ParseValue(_)
RECURSIVE ParseElements(_, _)

\* After "[": the closing bracket or the elements.
ParseArray(cs) ==
    LET s == SkipWs(cs) IN
    IF s # <<>> /\ Head(s) = "]"
    THEN Ok(JsArray(<<>>), Tail(s))
    ELSE ParseElements(s, <<>>)

ParseValue(cs) ==
    LET s == SkipWs(cs) IN
    IF s = <<>> THEN Fail
    ELSE IF Head(s) = "[" THEN ParseArray(Tail(s))
    ELSE IF IsDigit(Head(s)) THEN ParseNumber(s)
    ELSE IF Head(s) = "n" THEN ParseLiteral(s, NullWord, JsNull)
    ELSE Fail

\* An element, then "," and the elements left, or "]".
ParseElements(cs, acc) ==
    LET r == ParseValue(cs) IN
    IF ~r.ok THEN Fail
    ELSE LET s == SkipWs(r.rest) IN
         IF s = <<>> THEN Fail
         ELSE IF Head(s) = "," THEN ParseElements(Tail(s), Append(acc, r.value))
         ELSE IF Head(s) = "]" THEN Ok(JsArray(Append(acc, r.value)), Tail(s))
         ELSE Fail

\* JSON.parse(text): one value and nothing after it but whitespace, a
\* SyntaxError otherwise.
JsonParse(cs) ==
    LET r == ParseValue(cs) IN
    IF r.ok /\ SkipWs(r.rest) = <<>> THEN r ELSE Fail

\* `content ?? null`, and the string JSON.parse makes of its argument.
JsonText(c) == IF c.present THEN c.chars ELSE NullWord

\* Mutant of TryParse: the SyntaxError is not caught.
TryParse_Rethrows(c) ==
    LET r == JsonParse(JsonText(c)) IN
    IF r.ok THEN [kind |-> "returned", value |-> r.value]
    ELSE [kind |-> "threw", value |-> JsNull]

\* #tryParse: `try { return JSON.parse(json); } catch { return null; }`.
TryParse(c) ==
    LET r == JsonParse(JsonText(c)) IN
    IF r.ok THEN [kind |-> "returned", value |-> r.value]
    ELSE [kind |-> "returned", value |-> JsNull]

\* The characters of the completion texts explored: every text of up to
\* MaxTextLen characters, and some longer ones.
JsonChars == {"[", "]", ",", "0", "1", " "}
LongTexts ==
    { NullWord,
      <<"n", "u", "l">>,
      <<" ", "n", "u", "l", "l", " ">>,
      <<"[", "n", "u", "l", "l", ",", "1", "]">>,
      <<"n", "u", "l", "l", "1">>,
      <<"n", "o", "t", " ", "j", "s", "o", "n">> }
Texts == UNION {[1..n -> JsonChars] : n \in 0..MaxTextLen} \cup LongTexts
Contents == {Content(cs) : cs \in Texts} \cup {NoContent}

\* The backend's completion has come back from the wrapper.
InitJson ==
    /\ InitSession
    /\ NoGapHistory
    /\ InitParams
    /\ NoStream
    /\ content \in Contents
    /\ parsed = NotParsed

\* generateJSON's last statement.
GenerateJSON ==
    /\ parsed.kind = "pending"
    /\ parsed' = TryParse(content)
    /\ UNCHANGED content
    /\ UNCHANGED <<sessionVars, paramVars, streamVars>>

NextJson == GenerateJSON
SpecJson == InitJson /\ [][NextJson]_vars

\* The valid JSON texts of a given length over JsonChars, each with the
\* value it denotes, built from the grammar
\*   text ::= ws value ws      value ::= 0 | 1 digit* | [ ws ] | [ list ]
\*   list ::= text | text , list
Spaces(n) == [k \in 1..n |-> " "]
Bits == {[chars |-> <<"0">>, value |-> 0], [chars |-> <<"1">>, value |-> 1]}

RECURSIVE Numerals(_)
Numerals(n) ==
    IF n <= 0 THEN {}
    ELSE IF n = 1 THEN Bits
    ELSE {[chars |-> p.chars \o d.chars, value |-> 10 * p.value + d.value] :
            p \in {q \in Numerals(n - 1) : q.chars[1] # "0"}, d \in Bits}

RECURSIVE Bare(_)
RECURSIVE Padded(_)
RECURSIVE Lists(_)

Bare(n) ==
    {[chars |-> p.chars, value |-> JsNumber(p.value)] : p \in Numerals(n)}
    \cup (IF n < 2 THEN {}
          ELSE {[chars |-> <<"[">> \o Spaces(n - 2) \o <<"]">>,
                 value |-> JsArray(<<>>)]}
               \cup {[chars |-> <<"[">> \o l.chars \o <<"]">>,
                      value |-> JsArray(l.values)] : l \in Lists(n - 2)})

Padded(n) ==
    UNION {{[chars |-> Spaces(a) \o v.chars \o Spaces(n - a - Len(v.chars)),
             value |-> v.value] : v \in Bare(m)} :
           <<a, m>> \in {<<a, m>> \in (0..n) \X (1..n) : a + m <= n}}

Lists(n) ==
    IF n <= 0 THEN {}
    ELSE {[chars |-> p.chars, values |-> <<p.value>>] : p \in Padded(n)}
         \cup UNION {{[chars |-> p.chars \o <<",">> \o l.chars,
                       values |-> <<p.value>> \o l.values] :
                        p \in Padded(k), l \in Lists(n - k - 1)} :
                     k \in 1..(n - 2)}

\* The valid texts among Texts.
ValidJson ==
    UNION {Padded(n) : n \in 1..MaxTextLen}
    \cup { [chars |-> NullWord, value |-> JsNull],
           [chars |-> <<" ", "n", "u", "l", "l", " ">>, value |-> JsNull],
           [chars |-> <<"[", "n", "u", "l", "l", ",", "1", "]">>,
            value |-> JsArray(<<JsNull, JsNumber(1)>>)] }

\* C15: generateJSON never throws out of the parse; it returns the value
\* the text denotes when the first choice's text is valid JSON, and null
\* when it is malformed or absent.
C15_JsonSoftFail ==
    /\ parsed.kind # "threw"
    /\ parsed.kind = "returned" =>
        LET valid == {p \in ValidJson :
                        content.present /\ p.chars = content.chars} IN
        IF valid # {}
        THEN \A p \in valid : parsed.value = p.value
        ELSE parsed.value = JsNull

\* C15 witness: the text "not json" has been answered by null.
C15_Witness ==
    /\ content = Content(<<"n", "o", "t", " ", "j", "s", "o", "n">>)
    /\ parsed.kind = "returned"
    /\ parsed.value = JsNull

\* ------------------------------------------- between ready and wrapper
\* The program with the history readyAt kept.
InitGap ==
    /\ InitSession
    /\ InitPure
    /\ readyAt = [c \in Calls |-> NotReady]
SpecGap == InitGap /\ [][Next]_vars

\* The loadModel calls with an explicit target recorded for request c.
ExplicitLoads(c) ==
    {k \in 1..Len(readyAt[c].loads) : readyAt[c].loads[k].target \in Models}
\* Those that were waiting for the lock when c's #initEngine released it.
WaitingLoads(c) == {k \in ExplicitLoads(c) : readyAt[c].loads[k].atRelease}
\* The call of entry k has left its #initEngine.
HasRun(c, k) == initRes[readyAt[c].loads[k].call].kind # "pending"

\* C21 as stated: every loadModel(y) that was waiting for the lock when the
\* request's #initEngine released it has run before the request's backend
\* completion call, which is issued while #currentModelId is y.
C21_CompletionUnderThatModel ==
    \A c \in Calls :
        backend[c].kind = "complete" =>
            \A k \in WaitingLoads(c) :
                /\ HasRun(c, k)
                /\ currentModelId = readyAt[c].loads[k].target

\* C21 amended: every such loadModel has run before the completion call,
\* and so has every loadModel called before the request called its wrapper;
\* the completion is issued while #currentModelId is the target of the
\* last of them, which is y when no other came after.
C21_CompletionUnderLastSwitch ==
    \A c \in Calls :
        (backend[c].kind = "complete" /\ WaitingLoads(c) # {}) =>
            /\ \A k \in 1..Len(readyAt[c].loads) : HasRun(c, k)
            /\ \E k \in ExplicitLoads(c) :
                /\ \A j \in ExplicitLoads(c) : j <= k
                /\ currentModelId = readyAt[c].loads[k].target

\* C21 witness: a completion is in flight under the model of a loadModel
\* that was waiting at the request's release, not the model of the
\* request's own modelReady event.
C21_Witness ==
    \E c \in Calls :
        /\ backend[c].kind = "complete"
        /\ \E k \in WaitingLoads(c) :
            /\ currentModelId = readyAt[c].loads[k].target
            /\ currentModelId # readyAt[c].id
            /\ resident = currentModelId

\* ------------------------------------------------ wrapper needs a handle
\* Request c is in its wrapper, or about to call it.
InWrapper(c) ==
    pc[c] \in {"gen_ready", "gwr_wait", "gwr_resumed", "gwr_locked",
               "gwr_completing", "gwr_reloading"}

\* C22: a completion call or a recovery reload is in flight only with an
\* engine handle; a request is at or in its wrapper only after its own
\* #initEngine returned; a request whose #initEngine threw has ended
\* without a completion call or a reload.
C22_WrapperOnlyAfterReady ==
    \A c \in Calls :
        /\ (backend[c].kind = "complete" \/ pc[c] = "gwr_reloading") => engine
        /\ InWrapper(c) => initRes[c].kind = "returned"
        /\ attempts[c] > 0 => initRes[c].kind = "returned"
        /\ initRes[c].kind = "threw" =>
            /\ pc[c] = "done"
            /\ attempts[c] = 0
            /\ reloads[c] = 0
            /\ gwrRes[c] = Pending

\* C22 witness: a request whose #initEngine threw has ended without an
\* attempt while a later request has a completion call in flight.
C22_Witness ==
    \E c, d \in Calls :
        /\ op[c] \in GenOps
        /\ initRes[c].kind = "threw"
        /\ pc[c] = "done"
        /\ attempts[c] = 0
        /\ backend[d].kind = "complete"
        /\ engine

\* ------------------------------------------- failure of the recovery reload
\* Request c takes a step of its wrapper.
WrapperStep(c) ==
    /\ pc[c] \in {"gen_ready", "gwr_resumed", "gwr_locked", "gwr_completing",
                  "gwr_reloading"}
    /\ pc'[c] # pc[c]

\* C23: when the recovery reload throws, the wrapper makes no further
\* attempt and issues nothing more, its caller gets the reload's error, the
\* lock is released (handed to the oldest waiter, or freed) and
\* #currentModelId stays; no step of the wrapper changes #currentModelId or
\* #engine; a recovery reload in flight targets the current
\* #currentModelId.
C23_RecoveryReloadFailure ==
    [][\A c \in Calls :
        /\ RecoveryReloadFail(c) =>
            /\ attempts'[c] = attempts[c]
            /\ reloads'[c] = reloads[c]
            /\ backend'[c] = Idle
            /\ pc'[c] = "done"
            /\ ApiResult(c)'.kind = "threw"
            /\ ApiResult(c)'.what = "RecoveryReloadFailed"
            /\ held'[c] = 0
            /\ IF queue = <<>>
               THEN ~lock'
               ELSE /\ lock'
                    /\ queue' = Tail(queue)
                    /\ pc'[Head(queue)] \in ResumedPcs
            /\ currentModelId' = currentModelId
        /\ WrapperStep(c) =>
            /\ currentModelId' = currentModelId
            /\ engine' = engine
        /\ pc'[c] = "gwr_reloading" =>
            /\ backend'[c].kind = "reload"
            /\ backend'[c].arg = currentModelId'
            /\ engine'
      ]_vars

\* C23 witness: with two attempts allowed, the first failed and the
\* recovery reload failed: the request has ended with the reload's error
\* after one attempt, and the lock is free.
C23_Witness ==
    \E c \in Calls :
        /\ maxRetries[c] = 2
        /\ pc[c] = "done"
        /\ gwrRes[c].kind = "threw"
        /\ gwrRes[c].what = "RecoveryReloadFailed"
        /\ attempts[c] = 1
        /\ reloads[c] = 1
        /\ held[c] = 0
        /\ ~lock

====
